---- MODULE Spec2Model ----
(***************************************************************************)
(* SentryLab-Docker: the state monitor (templates/monitor.py) and the      *)
(* discovery publisher (templates/discovery.py).                           *)
(*                                                                         *)
(* One behaviour is one process run.  prog says which script runs, pc is   *)
(* the position in its main().  Every call into the container runtime      *)
(* client or the publish client is one step whose outcome ev is drawn      *)
(* from Outcomes: it returns ("ok"), raises an Exception ("raise") or a    *)
(* KeyboardInterrupt is delivered while it runs ("interrupt").             *)
(*                                                                         *)
(* Strings that the code takes apart or builds (container names, unique    *)
(* ids, topics) are sequences of string pieces; a container name is a      *)
(* sequence of one-character strings.                                      *)
(***************************************************************************)
EXTENDS Integers, Sequences, FiniteSets, TLC

VARIABLES
    prog,          \* "monitor" | "discovery": which script runs
    DEBUG,         \* the DEBUG environment flag
    creds,         \* USER and PASS are both set
    pc,            \* position in main()
    mqtt_client,   \* "unbound" | "None" | "client"
    containers,    \* the list returned by containers.list(all=True)
    idx,           \* index of the container the for loop is at
    sub,           \* discovery: number of the next publish call of the function
    state,         \* monitor: image_version of the state dict being built
    cycle,         \* monitor: number of the poll cycle (0 before the first)
    trace,         \* publish calls and log lines of this cycle / run, in order
    clientCalls,   \* names of the methods called so far on a publish client
    broker,        \* retained message per topic at the broker
    brokerAtCycleStart, \* broker as it was when the current cycle started
    interrupted,   \* a KeyboardInterrupt was delivered inside the polling loop
    exit_status,   \* "running" | "ok" | "raised"
    started_at_str, \* calculate_uptime: its argument
    now,           \* calculate_uptime: datetime.now(timezone.utc), in seconds
    uptime         \* calculate_uptime: its result, None before the call

procVars == <<prog, DEBUG, creds, pc, mqtt_client, containers, idx, sub, state,
              cycle, trace, clientCalls, broker, brokerAtCycleStart, interrupted,
              exit_status>>

uptimeVars == <<started_at_str, now, uptime>>

vars == <<procVars, uptimeVars>>

----------------------------------------------------------------------------
(* Bounds *)

MaxCycles == 2
MaxContainers == 3

(* Configuration defaults *)

DEVICE_ID == "docker_host"
HA_BASE_TOPIC == "homeassistant"
PROXMOX_HOST == "proxmox"
PROXMOX_VMID == "0"

(* The container names the runtime may report, in the order it lists them *)
AllNames ==
    << <<"a", "-", "b">>, <<"a", "_", "b">>, <<"w", "e", "b">>, <<"a", ".", "b">> >>

Outcomes == {"ok", "raise", "interrupt"}

None == <<>>

RECURSIVE Pick(_, _)
Pick(S, i) ==
    IF i > Len(AllNames) THEN <<>>
    ELSE IF i \in S THEN <<AllNames[i]>> \o Pick(S, i + 1)
    ELSE Pick(S, i + 1)

ContainerLists ==
    { Pick(S, 1) : S \in { T \in SUBSET (1..Len(AllNames)) : Cardinality(T) <= MaxContainers } }

----------------------------------------------------------------------------
(* Topics and messages *)

StateTopic(name) == <<"docker/", DEVICE_ID, "/">> \o name \o <<"/state">>

SummaryTopic == <<"docker/", DEVICE_ID, "/summary">>

Pub(topic, kind, uid, who) ==
    [op |-> "publish", topic |-> topic, kind |-> kind, uid |-> uid, who |-> who,
     retain |-> TRUE, exc |-> ""]

Dbg(topic, kind, who) ==
    [op |-> "debug", topic |-> topic, kind |-> kind, uid |-> None, who |-> who,
     retain |-> FALSE, exc |-> ""]

Err(src, who, exc) ==
    [op |-> "error", topic |-> <<src>>, kind |-> "", uid |-> None, who |-> who,
     retain |-> FALSE, exc |-> exc]

Info(line) ==
    [op |-> "info", topic |-> <<line>>, kind |-> "", uid |-> None, who |-> None,
     retain |-> FALSE, exc |-> ""]

Retain(b, topic, payload) ==
    [t \in (DOMAIN b) \cup {topic} |-> IF t = topic THEN payload ELSE b[t]]

Payload(uid, who, n) == [uid |-> uid, who |-> who, cycle |-> n]

----------------------------------------------------------------------------
(* Initial state: the process has been started, nothing has run yet *)

Init ==
    /\ prog \in {"monitor", "discovery"}
    /\ DEBUG \in BOOLEAN
    /\ creds \in BOOLEAN
    /\ pc = "from_env"
    /\ mqtt_client = "unbound"
    /\ containers = <<>>
    /\ idx = 0
    /\ sub = 0
    /\ state = None
    /\ cycle = 0
    /\ trace = <<>>
    /\ clientCalls = {}
    /\ broker = <<>>
    /\ brokerAtCycleStart = <<>>
    /\ interrupted = FALSE
    /\ exit_status = "running"
    /\ started_at_str = None
    /\ now = 0
    /\ uptime = None

----------------------------------------------------------------------------
(* monitor.py *)

(* The image references a container's image may resolve to *)
Images == { <<"nginx", ":", "1.25">>, <<"nginx">> }

(* image_full.rsplit(":", 1)[1] if ":" in image_full else "latest" *)
RECURSIVE LastColon(_, _)
LastColon(image_full, i) ==
    IF i = 0 THEN 0
    ELSE IF image_full[i] = ":" THEN i
    ELSE LastColon(image_full, i - 1)

image_version_of(image_full) ==
    LET k == LastColon(image_full, Len(image_full))
    IN  IF k = 0 THEN <<"latest">>
        ELSE SubSeq(image_full, k + 1, Len(image_full))

(* Mutant of Truthy: the state is published whether or not there is one *)
Truthy_always(st) == TRUE

(* `if state:` -- get_container_state returns None or a non-empty dict *)
Truthy(st) == st /= None

(* docker.from_env(); when it does not return, the finally block reads
   mqtt_client before it was ever bound and the process ends raising *)
from_env(ev) ==
    /\ prog = "monitor"
    /\ pc = "from_env"
    /\ IF ev = "ok"
       THEN /\ pc' = "setup_mqtt"
            /\ UNCHANGED exit_status
       ELSE /\ pc' = "exited"
            /\ exit_status' = "raised"
    /\ UNCHANGED <<uptimeVars, prog, DEBUG, creds, mqtt_client, containers, idx, sub, state,
                   cycle, trace, clientCalls, broker, brokerAtCycleStart,
                   interrupted>>

(* Mutant of setup_mqtt: the DEBUG test is missing *)
setup_mqtt_no_debug_test(ev) ==
    /\ prog = "monitor"
    /\ pc = "setup_mqtt"
    /\ LET made == {"Client", "connect"}
                   \cup (IF creds THEN {"username_pw_set"} ELSE {})
       IN  IF ev = "ok"
           THEN /\ clientCalls' = clientCalls \cup made \cup {"loop_start"}
                /\ mqtt_client' = "client"
                /\ pc' = "connect_wait"
                /\ UNCHANGED exit_status
           ELSE /\ clientCalls' = clientCalls \cup made
                /\ pc' = "exited"
                /\ exit_status' = "raised"
                /\ UNCHANGED mqtt_client
    /\ UNCHANGED <<uptimeVars, prog, DEBUG, creds, containers, idx, sub, state, cycle, trace,
                   broker, brokerAtCycleStart, interrupted>>

(* setup_mqtt(): DEBUG returns None before a client exists *)
setup_mqtt(ev) ==
    /\ prog = "monitor"
    /\ pc = "setup_mqtt"
    /\ IF DEBUG
       THEN /\ ev = "ok"
            /\ mqtt_client' = "None"
            /\ pc' = "connect_wait"
            /\ UNCHANGED <<clientCalls, exit_status>>
       ELSE LET made == {"Client", "connect"}
                        \cup (IF creds THEN {"username_pw_set"} ELSE {})
            IN  IF ev = "ok"
                THEN /\ clientCalls' = clientCalls \cup made \cup {"loop_start"}
                     /\ mqtt_client' = "client"
                     /\ pc' = "connect_wait"
                     /\ UNCHANGED exit_status
                ELSE /\ clientCalls' = clientCalls \cup made
                     /\ pc' = "exited"
                     /\ exit_status' = "raised"
                     /\ UNCHANGED mqtt_client
    /\ UNCHANGED <<uptimeVars, prog, DEBUG, creds, containers, idx, sub, state, cycle, trace,
                   broker, brokerAtCycleStart, interrupted>>

(* if mqtt_client: time.sleep(2) *)
connect_wait(ev) ==
    /\ prog = "monitor"
    /\ pc = "connect_wait"
    /\ IF mqtt_client = "client"
       THEN /\ ev \in {"ok", "interrupt"}
            /\ pc' = IF ev = "ok" THEN "list" ELSE "keyboard_interrupt"
       ELSE /\ ev = "ok"
            /\ pc' = "list"
    /\ UNCHANGED <<uptimeVars, prog, DEBUG, creds, mqtt_client, containers, idx, sub, state,
                   cycle, trace, clientCalls, broker, brokerAtCycleStart,
                   interrupted, exit_status>>

(* Mutant of list_containers: an exception of containers.list leaves
   monitor_containers and main() *)
list_containers_uncaught(ev) ==
    /\ prog = "monitor"
    /\ pc = "list"
    /\ cycle' = cycle + 1
    /\ brokerAtCycleStart' = broker
    /\ state' = None
    /\ idx' = 0
    /\ CASE ev = "ok" ->
              /\ containers' \in ContainerLists
              /\ trace' = <<Info("Monitoring")>>
              /\ pc' = "publish_summary"
              /\ UNCHANGED <<interrupted, exit_status>>
         [] ev = "raise" ->
              /\ containers' = <<>>
              /\ trace' = <<Err("main", None, "Exception")>>
              /\ pc' = "exited"
              /\ exit_status' = "raised"
              /\ UNCHANGED interrupted
         [] ev = "interrupt" ->
              /\ containers' = <<>>
              /\ trace' = <<>>
              /\ pc' = "keyboard_interrupt"
              /\ interrupted' = TRUE
              /\ UNCHANGED exit_status
    /\ UNCHANGED <<uptimeVars, prog, DEBUG, creds, mqtt_client, sub, clientCalls, broker>>

(* monitor_containers(): containers = docker_client.containers.list(all=True) *)
list_containers(ev) ==
    /\ prog = "monitor"
    /\ pc = "list"
    /\ cycle' = cycle + 1
    /\ brokerAtCycleStart' = broker
    /\ state' = None
    /\ idx' = 0
    /\ CASE ev = "ok" ->
              /\ containers' \in ContainerLists
              /\ trace' = <<Info("Monitoring")>>
              /\ pc' = "publish_summary"
              /\ UNCHANGED interrupted
         [] ev = "raise" ->
              /\ containers' = <<>>
              /\ trace' = <<Err("monitor_containers", None, "Exception")>>
              /\ pc' = "sleep"
              /\ UNCHANGED interrupted
         [] ev = "interrupt" ->
              /\ containers' = <<>>
              /\ trace' = <<>>
              /\ pc' = "keyboard_interrupt"
              /\ interrupted' = TRUE
    /\ UNCHANGED <<uptimeVars, prog, DEBUG, creds, mqtt_client, sub, clientCalls, broker,
                   exit_status>>

(* where the for loop goes once container i is dealt with *)
LoopPc(i) == IF i > Len(containers) THEN "sleep" ELSE "get_container_state"

LoopTrace(i, tr) ==
    IF i > Len(containers) THEN Append(tr, Info("Updated status")) ELSE tr

(* Mutant of publish_summary: the for loop is entered with the summary not
   yet published *)
publish_summary_not_first(ev) ==
    /\ prog = "monitor"
    /\ pc = "publish_summary"
    /\ ev = "ok"
    /\ trace' = LoopTrace(1, trace)
    /\ idx' = 1
    /\ pc' = LoopPc(1)
    /\ UNCHANGED <<uptimeVars, prog, DEBUG, creds, mqtt_client, containers, sub, state, cycle,
                   clientCalls, broker, brokerAtCycleStart, interrupted, exit_status>>

(* publish_summary(mqtt_client, containers), called before the for loop;
   an exception it raises is caught by the handler of monitor_containers *)
publish_summary(ev) ==
    /\ prog = "monitor"
    /\ pc = "publish_summary"
    /\ CASE ev = "ok" ->
              /\ IF mqtt_client = "None" /\ DEBUG
                 THEN /\ trace' = LoopTrace(1, Append(trace, Dbg(SummaryTopic, "summary", None)))
                      /\ UNCHANGED <<broker, clientCalls>>
                 ELSE IF mqtt_client = "client"
                 THEN /\ trace' = LoopTrace(1, Append(trace, Pub(SummaryTopic, "summary", None, None)))
                      /\ broker' = Retain(broker, SummaryTopic, Payload(None, None, cycle))
                      /\ clientCalls' = clientCalls \cup {"publish"}
                 ELSE /\ trace' = LoopTrace(1, trace)
                      /\ UNCHANGED <<broker, clientCalls>>
              /\ idx' = 1
              /\ pc' = LoopPc(1)
              /\ UNCHANGED interrupted
         [] ev = "raise" ->
              /\ trace' = Append(trace, Err("monitor_containers", None, "Exception"))
              /\ pc' = "sleep"
              /\ UNCHANGED <<broker, clientCalls, idx, interrupted>>
         [] ev = "interrupt" ->
              /\ pc' = "keyboard_interrupt"
              /\ interrupted' = TRUE
              /\ UNCHANGED <<broker, clientCalls, idx, trace>>
    /\ UNCHANGED <<uptimeVars, prog, DEBUG, creds, mqtt_client, containers, sub, state, cycle,
                   brokerAtCycleStart, exit_status>>

(* Mutant of get_container_state: after an exception the handler returns a
   state dict instead of None *)
get_container_state_returns_dict(ev) ==
    /\ prog = "monitor"
    /\ pc = "get_container_state"
    /\ CASE ev = "ok" ->
              /\ pc' = "resolve_image"
              /\ state' = None
              /\ UNCHANGED <<trace, interrupted>>
         [] ev = "raise" ->
              /\ trace' = Append(trace, Err("get_container_state", containers[idx], "Exception"))
              /\ pc' = "publish_container_state"
              /\ state' = [image_version |-> <<"unknown">>]
              /\ UNCHANGED interrupted
         [] ev = "interrupt" ->
              /\ pc' = "keyboard_interrupt"
              /\ interrupted' = TRUE
              /\ state' = None
              /\ UNCHANGED trace
    /\ UNCHANGED <<uptimeVars, prog, DEBUG, creds, mqtt_client, containers, idx, sub, cycle,
                   clientCalls, broker, brokerAtCycleStart, exit_status>>

(* get_container_state(): container.reload() and the reads of attrs; an
   exception is logged and None is returned.  The uptime string it puts in
   the state is calculate_uptime, modelled on its own under UptimeSpec. *)
get_container_state(ev) ==
    /\ prog = "monitor"
    /\ pc = "get_container_state"
    /\ CASE ev = "ok" ->
              /\ pc' = "resolve_image"
              /\ UNCHANGED <<trace, interrupted>>
         [] ev = "raise" ->
              /\ trace' = Append(trace, Err("get_container_state", containers[idx], "Exception"))
              /\ pc' = "publish_container_state"
              /\ UNCHANGED interrupted
         [] ev = "interrupt" ->
              /\ pc' = "keyboard_interrupt"
              /\ interrupted' = TRUE
              /\ UNCHANGED trace
    /\ state' = None
    /\ UNCHANGED <<uptimeVars, prog, DEBUG, creds, mqtt_client, containers, idx, sub, cycle,
                   clientCalls, broker, brokerAtCycleStart, exit_status>>

(* get_container_state(): the image tag block; its bare except catches
   whatever is raised inside, a KeyboardInterrupt included *)
resolve_image(ev) ==
    /\ prog = "monitor"
    /\ pc = "resolve_image"
    /\ IF ev = "ok"
       THEN \E image_full \in Images :
                state' = [image_version |-> image_version_of(image_full)]
       ELSE state' = [image_version |-> <<"unknown">>]
    /\ interrupted' = (interrupted \/ ev = "interrupt")
    /\ pc' = "publish_container_state"
    /\ UNCHANGED <<uptimeVars, prog, DEBUG, creds, mqtt_client, containers, idx, sub, cycle,
                   trace, clientCalls, broker, brokerAtCycleStart, exit_status>>

(* publish_container_state(): publishes the state if there is one; an
   exception is caught by the handler inside the for loop *)
publish_container_state(ev) ==
    /\ prog = "monitor"
    /\ pc = "publish_container_state"
    /\ LET name == containers[idx]
           topic == StateTopic(name)
       IN  IF ~Truthy(state) \/ mqtt_client \notin {"None", "client"}
                \/ (mqtt_client = "None" /\ ~DEBUG)
           THEN /\ ev = "ok"
                /\ trace' = LoopTrace(idx + 1, trace)
                /\ pc' = LoopPc(idx + 1)
                /\ idx' = idx + 1
                /\ UNCHANGED <<broker, clientCalls, interrupted>>
           ELSE IF mqtt_client = "None"
           THEN /\ ev = "ok"
                /\ trace' = LoopTrace(idx + 1, Append(trace, Dbg(topic, "state", name)))
                /\ pc' = LoopPc(idx + 1)
                /\ idx' = idx + 1
                /\ UNCHANGED <<broker, clientCalls, interrupted>>
           ELSE /\ clientCalls' = clientCalls \cup {"publish"}
                /\ CASE ev = "ok" ->
                          /\ trace' = LoopTrace(idx + 1, Append(trace, Pub(topic, "state", None, name)))
                          /\ broker' = Retain(broker, topic, Payload(None, name, cycle))
                          /\ pc' = LoopPc(idx + 1)
                          /\ idx' = idx + 1
                          /\ UNCHANGED interrupted
                     [] ev = "raise" ->
                          /\ trace' = LoopTrace(idx + 1,
                                        Append(trace, Err("monitor_containers.for", name, "Exception")))
                          /\ pc' = LoopPc(idx + 1)
                          /\ idx' = idx + 1
                          /\ UNCHANGED <<broker, interrupted>>
                     [] ev = "interrupt" ->
                          /\ pc' = "keyboard_interrupt"
                          /\ interrupted' = TRUE
                          /\ UNCHANGED <<broker, trace, idx>>
    /\ state' = None
    /\ UNCHANGED <<uptimeVars, prog, DEBUG, creds, mqtt_client, containers, sub, cycle,
                   brokerAtCycleStart, exit_status>>

(* time.sleep(POLL_INTERVAL), then the next turn of while True *)
sleep(ev) ==
    /\ prog = "monitor"
    /\ pc = "sleep"
    /\ \/ /\ ev = "ok"
          /\ cycle < MaxCycles
          /\ pc' = "list"
          /\ UNCHANGED interrupted
       \/ /\ ev = "interrupt"
          /\ pc' = "keyboard_interrupt"
          /\ interrupted' = TRUE
    /\ UNCHANGED <<uptimeVars, prog, DEBUG, creds, mqtt_client, containers, idx, sub, state,
                   cycle, trace, clientCalls, broker, brokerAtCycleStart,
                   exit_status>>

(* except KeyboardInterrupt, then the finally block *)
shutdown ==
    /\ prog = "monitor"
    /\ pc = "keyboard_interrupt"
    /\ clientCalls' = IF mqtt_client = "client"
                      THEN clientCalls \cup {"loop_stop", "disconnect"}
                      ELSE clientCalls
    /\ trace' = Append(trace, Info("Monitoring stopped"))
    /\ pc' = "exited"
    /\ exit_status' = "ok"
    /\ UNCHANGED <<uptimeVars, prog, DEBUG, creds, mqtt_client, containers, idx, sub, state,
                   cycle, broker, brokerAtCycleStart, interrupted>>

MonitorNext ==
    \/ \E ev \in Outcomes : from_env(ev)
    \/ \E ev \in Outcomes : setup_mqtt(ev)
    \/ \E ev \in Outcomes : connect_wait(ev)
    \/ \E ev \in Outcomes : list_containers(ev)
    \/ \E ev \in Outcomes : publish_summary(ev)
    \/ \E ev \in Outcomes : get_container_state(ev)
    \/ \E ev \in Outcomes : resolve_image(ev)
    \/ \E ev \in Outcomes : publish_container_state(ev)
    \/ \E ev \in Outcomes : sleep(ev)
    \/ shutdown

----------------------------------------------------------------------------
(* discovery.py *)

(* container_name.replace("-", "_").replace(".", "_") *)
safe_name(container_name) ==
    [i \in DOMAIN container_name |->
        IF container_name[i] \in {"-", "."} THEN "_" ELSE container_name[i]]

topic_prefix(container_name) ==
    <<"sl_docker_", PROXMOX_HOST, "_", PROXMOX_VMID, "_">> \o safe_name(container_name)

PerContainerKinds ==
    <<"status", "state", "uptime", "health", "image", "version", "sentrylab_version">>

FleetKinds == <<"total", "running", "stopped", "sentrylab_version">>

(* the j-th config published by publish_container_discovery *)
container_descriptor(j, container_name) ==
    LET kind == PerContainerKinds[j]
    IN  CASE j = 1 ->
               [kind |-> kind,
                unique_id |-> topic_prefix(container_name) \o <<"_", kind>>,
                topic |-> <<HA_BASE_TOPIC, "/binary_sensor/">>
                          \o topic_prefix(container_name) \o <<"_", kind, "/config">>]
          [] j \in 2..5 ->
               [kind |-> kind,
                unique_id |-> topic_prefix(container_name) \o <<"_", kind>>,
                topic |-> <<HA_BASE_TOPIC, "/sensor/">>
                          \o topic_prefix(container_name) \o <<"_", kind, "/config">>]
          [] j = 6 ->
               [kind |-> kind,
                unique_id |-> <<"docker_">> \o safe_name(container_name) \o <<"_version">>,
                topic |-> <<HA_BASE_TOPIC, "/sensor/", "docker_">>
                          \o safe_name(container_name) \o <<"/version/config">>]
          [] j = 7 ->
               [kind |-> kind,
                unique_id |-> <<"docker_", DEVICE_ID, "_sentrylab_version">>,
                topic |-> <<HA_BASE_TOPIC, "/sensor/", "docker_", DEVICE_ID,
                            "/sentrylab_version/config">>]

(* the k-th config published by publish_summary_discovery *)
summary_descriptor(k) ==
    [kind |-> FleetKinds[k],
     unique_id |-> <<"docker_", DEVICE_ID, "_", FleetKinds[k]>>,
     topic |-> <<HA_BASE_TOPIC, "/sensor/", "docker_", DEVICE_ID, "/", FleetKinds[k], "/config">>]

(* the image block of publish_container_discovery: "ok" when image_name and
   image_tag get bound, "KeyError" when the read of attrs["Config"]["Image"]
   in the except clause raises *)
image_block(ev, has_tags, has_config_image) ==
    IF ev = "ok" /\ has_tags THEN "ok"
    ELSE IF has_config_image THEN "ok"
    ELSE "KeyError"

discovery_from_env(ev) ==
    /\ prog = "discovery"
    /\ pc = "from_env"
    /\ IF ev = "ok"
       THEN /\ pc' = "setup_mqtt"
            /\ UNCHANGED exit_status
       ELSE /\ pc' = "exited"
            /\ exit_status' = "raised"
    /\ UNCHANGED <<uptimeVars, prog, DEBUG, creds, mqtt_client, containers, idx, sub, state,
                   cycle, trace, clientCalls, broker, brokerAtCycleStart,
                   interrupted>>

(* setup_mqtt(): the client is built and given its credentials before the
   DEBUG test *)
discovery_setup_mqtt(ev) ==
    /\ prog = "discovery"
    /\ pc = "setup_mqtt"
    /\ LET built == {"Client"} \cup (IF creds THEN {"username_pw_set"} ELSE {})
       IN  IF DEBUG
           THEN /\ ev = "ok"
                /\ clientCalls' = clientCalls \cup built
                /\ mqtt_client' = "None"
                /\ pc' = "connect_wait"
                /\ UNCHANGED exit_status
           ELSE IF ev = "ok"
           THEN /\ clientCalls' = clientCalls \cup built \cup {"connect", "loop_start"}
                /\ mqtt_client' = "client"
                /\ pc' = "connect_wait"
                /\ UNCHANGED exit_status
           ELSE /\ clientCalls' = clientCalls \cup built \cup {"connect"}
                /\ pc' = "exited"
                /\ exit_status' = "raised"
                /\ UNCHANGED mqtt_client
    /\ UNCHANGED <<uptimeVars, prog, DEBUG, creds, containers, idx, sub, state, cycle, trace,
                   broker, brokerAtCycleStart, interrupted>>

discovery_connect_wait(ev) ==
    /\ prog = "discovery"
    /\ pc = "connect_wait"
    /\ IF mqtt_client = "client"
       THEN /\ ev \in {"ok", "interrupt"}
            /\ pc' = IF ev = "ok" THEN "list" ELSE "exited"
            /\ exit_status' = IF ev = "ok" THEN exit_status ELSE "raised"
       ELSE /\ ev = "ok"
            /\ pc' = "list"
            /\ UNCHANGED exit_status
    /\ UNCHANGED <<uptimeVars, prog, DEBUG, creds, mqtt_client, containers, idx, sub, state,
                   cycle, trace, clientCalls, broker, brokerAtCycleStart,
                   interrupted>>

discovery_list_containers(ev) ==
    /\ prog = "discovery"
    /\ pc = "list"
    /\ IF ev = "ok"
       THEN /\ containers' \in ContainerLists
            /\ pc' = "publish_summary_discovery"
            /\ sub' = 1
            /\ UNCHANGED exit_status
       ELSE /\ pc' = "exited"
            /\ exit_status' = "raised"
            /\ UNCHANGED <<containers, sub>>
    /\ UNCHANGED <<uptimeVars, prog, DEBUG, creds, mqtt_client, idx, state, cycle, trace,
                   clientCalls, broker, brokerAtCycleStart, interrupted>>

(* where main() goes once container i is dealt with *)
DiscoveryLoopPc(i) ==
    IF i > Len(containers) THEN "finish"
    ELSE IF mqtt_client = "None" /\ DEBUG THEN "publish_container_discovery"
    ELSE "image_block"

(* publish_summary_discovery(): one publish call per step; an exception
   leaves main() *)
publish_summary_discovery(ev) ==
    /\ prog = "discovery"
    /\ pc = "publish_summary_discovery"
    /\ IF mqtt_client = "None" /\ DEBUG
       THEN /\ ev = "ok"
            /\ trace' = Append(trace, Dbg(None, "summary", None))
            /\ pc' = DiscoveryLoopPc(1)
            /\ idx' = 1
            /\ sub' = 1
            /\ UNCHANGED <<broker, clientCalls, exit_status>>
       ELSE LET d == summary_descriptor(sub)
            IN  /\ clientCalls' = clientCalls \cup {"publish"}
                /\ IF ev = "ok"
                   THEN /\ trace' = Append(trace, Pub(d.topic, d.kind, d.unique_id, None))
                        /\ broker' = Retain(broker, d.topic, Payload(d.unique_id, None, 0))
                        /\ IF sub = Len(FleetKinds)
                           THEN /\ pc' = DiscoveryLoopPc(1)
                                /\ idx' = 1
                                /\ sub' = 1
                           ELSE /\ sub' = sub + 1
                                /\ UNCHANGED <<pc, idx>>
                        /\ UNCHANGED exit_status
                   ELSE /\ pc' = "exited"
                        /\ exit_status' = "raised"
                        /\ UNCHANGED <<trace, broker, idx, sub>>
    /\ UNCHANGED <<uptimeVars, prog, DEBUG, creds, mqtt_client, containers, state, cycle,
                   brokerAtCycleStart, interrupted>>

(* publish_container_discovery(): the image block; a KeyError raised in its
   except clause is caught by the handler of the for loop in main() *)
discovery_image_block(ev) ==
    /\ prog = "discovery"
    /\ pc = "image_block"
    /\ \E has_tags \in BOOLEAN, has_config_image \in BOOLEAN :
          IF image_block(ev, has_tags, has_config_image) = "ok"
          THEN /\ pc' = "publish_container_discovery"
               /\ sub' = 1
               /\ UNCHANGED <<trace, idx>>
          ELSE /\ trace' = Append(trace, Err("main.for", containers[idx], "KeyError"))
               /\ pc' = DiscoveryLoopPc(idx + 1)
               /\ idx' = idx + 1
               /\ sub' = 1
    /\ UNCHANGED <<uptimeVars, prog, DEBUG, creds, mqtt_client, containers, state, cycle,
                   clientCalls, broker, brokerAtCycleStart, interrupted,
                   exit_status>>

(* publish_container_discovery(): one publish call per step; an exception
   is caught by the handler of the for loop in main() *)
publish_container_discovery(ev) ==
    /\ prog = "discovery"
    /\ pc = "publish_container_discovery"
    /\ LET name == containers[idx]
       IN  IF mqtt_client = "None" /\ DEBUG
           THEN /\ ev = "ok"
                /\ trace' = Append(trace, Dbg(None, "discovery", name))
                /\ pc' = DiscoveryLoopPc(idx + 1)
                /\ idx' = idx + 1
                /\ UNCHANGED <<broker, clientCalls, sub, exit_status>>
           ELSE LET d == container_descriptor(sub, name)
                IN  /\ clientCalls' = clientCalls \cup {"publish"}
                    /\ CASE ev = "ok" ->
                              /\ trace' = Append(trace, Pub(d.topic, d.kind, d.unique_id, name))
                              /\ broker' = Retain(broker, d.topic, Payload(d.unique_id, name, 0))
                              /\ IF sub = Len(PerContainerKinds)
                                 THEN /\ pc' = DiscoveryLoopPc(idx + 1)
                                      /\ idx' = idx + 1
                                      /\ sub' = 1
                                 ELSE /\ sub' = sub + 1
                                      /\ UNCHANGED <<pc, idx>>
                              /\ UNCHANGED exit_status
                         [] ev = "raise" ->
                              /\ trace' = Append(trace, Err("main.for", name, "PublishError"))
                              /\ pc' = DiscoveryLoopPc(idx + 1)
                              /\ idx' = idx + 1
                              /\ sub' = 1
                              /\ UNCHANGED <<broker, exit_status>>
                         [] ev = "interrupt" ->
                              /\ pc' = "exited"
                              /\ exit_status' = "raised"
                              /\ UNCHANGED <<trace, broker, idx, sub>>
    /\ UNCHANGED <<uptimeVars, prog, DEBUG, creds, mqtt_client, containers, state, cycle,
                   brokerAtCycleStart, interrupted>>

(* the end of main(): sleep, loop_stop, disconnect *)
discovery_finish(ev) ==
    /\ prog = "discovery"
    /\ pc = "finish"
    /\ IF mqtt_client = "client"
       THEN /\ ev \in {"ok", "interrupt"}
            /\ IF ev = "ok"
               THEN /\ clientCalls' = clientCalls \cup {"loop_stop", "disconnect"}
                    /\ trace' = Append(trace, Info("Discovery complete"))
                    /\ exit_status' = "ok"
               ELSE /\ exit_status' = "raised"
                    /\ UNCHANGED <<clientCalls, trace>>
       ELSE /\ ev = "ok"
            /\ trace' = Append(trace, Info("Discovery complete"))
            /\ exit_status' = "ok"
            /\ UNCHANGED clientCalls
    /\ pc' = "exited"
    /\ UNCHANGED <<uptimeVars, prog, DEBUG, creds, mqtt_client, containers, idx, sub, state,
                   cycle, broker, brokerAtCycleStart, interrupted>>

DiscoveryNext ==
    \/ \E ev \in Outcomes : discovery_from_env(ev)
    \/ \E ev \in Outcomes : discovery_setup_mqtt(ev)
    \/ \E ev \in Outcomes : discovery_connect_wait(ev)
    \/ \E ev \in Outcomes : discovery_list_containers(ev)
    \/ \E ev \in Outcomes : publish_summary_discovery(ev)
    \/ \E ev \in Outcomes : discovery_image_block(ev)
    \/ \E ev \in Outcomes : publish_container_discovery(ev)
    \/ \E ev \in Outcomes : discovery_finish(ev)

----------------------------------------------------------------------------

Next == MonitorNext \/ DiscoveryNext

Spec == Init /\ [][Next]_vars

----------------------------------------------------------------------------
(* calculate_uptime(started_at_str)                                        *)
(*                                                                         *)
(* Time is counted in seconds from 0001-01-01T00:00:00 UTC.  An argument   *)
(* is None, the empty string, a text that is no ISO-8601 timestamp, or a   *)
(* timestamp: the second it names in its own zone and its zone suffix      *)
(* ("Z", "+00:00", "+01:00", or "" when it has none).                      *)

MaxDays == 1
Now0 == 200000

NoneArg == [form |-> "None", secs |-> 0, tz |-> ""]
EmptyArg == [form |-> "empty", secs |-> 0, tz |-> ""]
TextArg == [form |-> "text", secs |-> 0, tz |-> ""]
Iso(secs, tz) == [form |-> "iso", secs |-> secs, tz |-> tz]

(* "0001-01-01T00:00:00Z" *)
ZeroTime == Iso(0, "Z")

(* started_at_str.replace('Z', '+00:00') *)
replace_Z(s) == IF s.tz = "Z" THEN [s EXCEPT !.tz = "+00:00"] ELSE s

(* datetime.fromisoformat: ValueError on a text that is no timestamp, a
   naive datetime when there is no zone suffix, an aware one otherwise *)
fromisoformat(s) ==
    CASE s.form /= "iso" -> [err |-> "ValueError", aware |-> FALSE, utc |-> 0]
      [] s.tz = "" -> [err |-> "", aware |-> FALSE, utc |-> s.secs]
      [] s.tz = "+00:00" -> [err |-> "", aware |-> TRUE, utc |-> s.secs]
      [] s.tz = "+01:00" -> [err |-> "", aware |-> TRUE, utc |-> s.secs - 3600]
      [] OTHER -> [err |-> "ValueError", aware |-> FALSE, utc |-> 0]

Text(fmt) == [fmt |-> fmt, a |-> 0, b |-> 0, c |-> 0]
Formatted(fmt, a, b, c) == [fmt |-> fmt, a |-> a, b |-> b, c |-> c]

calculate_uptime(s, n) ==
    IF s.form \in {"None", "empty"} \/ s = ZeroTime
    THEN Text("Not started")
    ELSE LET started_at == fromisoformat(replace_Z(s))
         IN  IF started_at.err /= "" \/ ~started_at.aware
             THEN Text("Unknown")
             ELSE LET uptime_delta == n - started_at.utc
                      days == uptime_delta \div 86400
                      delta_seconds == uptime_delta % 86400
                      hours == delta_seconds \div 3600
                      remainder == delta_seconds % 3600
                      minutes == remainder \div 60
                      seconds == remainder % 60
                  IN  IF days > 0 THEN Formatted("d h m", days, hours, minutes)
                      ELSE IF hours > 0 THEN Formatted("h m", hours, minutes, 0)
                      ELSE Formatted("m s", minutes, seconds, 0)

Elapsed ==
    { d * 86400 + h * 3600 + m * 60 + sec :
        d \in 0..MaxDays, h \in {0, 2, 23}, m \in {0, 5, 10, 59}, sec \in {0, 3, 59} }

Ahead == {1, 10, 3600, 86400, 86410}

StartedAtArgs ==
    {NoneArg, EmptyArg, TextArg, ZeroTime}
    \cup { Iso(Now0 - e, tz) : e \in Elapsed, tz \in {"Z", "+00:00", "+01:00", ""} }
    \cup { Iso(Now0 + e, tz) : e \in Ahead, tz \in {"Z", ""} }

UptimeInit ==
    /\ prog = "calculate_uptime"
    /\ DEBUG = FALSE
    /\ creds = FALSE
    /\ pc = "call"
    /\ mqtt_client = "unbound"
    /\ containers = <<>>
    /\ idx = 0
    /\ sub = 0
    /\ state = None
    /\ cycle = 0
    /\ trace = <<>>
    /\ clientCalls = {}
    /\ broker = <<>>
    /\ brokerAtCycleStart = <<>>
    /\ interrupted = FALSE
    /\ exit_status = "running"
    /\ started_at_str \in StartedAtArgs
    /\ now \in {Now0, Now0 + 30}
    /\ uptime = None

call_calculate_uptime ==
    /\ prog = "calculate_uptime"
    /\ pc = "call"
    /\ uptime' = calculate_uptime(started_at_str, now)
    /\ pc' = "returned"
    /\ UNCHANGED <<prog, DEBUG, creds, mqtt_client, containers, idx, sub, state,
                   cycle, trace, clientCalls, broker, brokerAtCycleStart,
                   interrupted, exit_status, started_at_str, now>>

UptimeNext == call_calculate_uptime

UptimeSpec == UptimeInit /\ [][UptimeNext]_vars

----------------------------------------------------------------------------
(* Properties *)

Names(list) == { list[i] : i \in DOMAIN list }

(* number of events of the trace that satisfy Test *)
Count(Test(_)) == Cardinality({ i \in DOMAIN trace : Test(trace[i]) })

StatePubs(name) ==
    Count(LAMBDA e : e.op = "publish" /\ e.topic = StateTopic(name))

StateDbgs(name) ==
    Count(LAMBDA e : e.op = "debug" /\ e.topic = StateTopic(name))

DescriptorPubs(name) ==
    Count(LAMBDA e : e.op = "publish" /\ e.who = name)

FetchFailed(name) ==
    \E i \in DOMAIN trace : trace[i] = Err("get_container_state", name, "Exception")

HasError(name) ==
    \E i \in DOMAIN trace : trace[i].op = "error" /\ trace[i].who = name

Enumerated == Len(trace) > 0 /\ trace[1] = Info("Monitoring")

CycleOver == prog = "monitor" /\ pc = "sleep" /\ Enumerated

(* C1: in a poll cycle in which the refresh or the attribute reads of some
   container raised, no state message is published for a container whose
   fetch raised, and every container of the list that met no error of its
   own, before or after the failing one, has its state message published
   once on docker/<device_id>/<name>/state. *)
C1_FailureIsolation ==
    (CycleOver /\ ~DEBUG /\ \E b \in Names(containers) : FetchFailed(b))
    => \A c \in Names(containers) :
          /\ FetchFailed(c) => StatePubs(c) = 0
          /\ ~HasError(c) => StatePubs(c) = 1

C1_Witness ==
    /\ CycleOver /\ ~DEBUG
    /\ Len(containers) = 3
    /\ FetchFailed(containers[2])
    /\ StatePubs(containers[1]) = 1
    /\ StatePubs(containers[2]) = 0
    /\ StatePubs(containers[3]) = 1

(* C2: once a KeyboardInterrupt has been delivered inside the polling loop,
   the monitor is shutting down or has exited, never at a further step of
   the loop; and when it has exited it did so without raising and, if it
   had a client, after loop_stop and disconnect. *)
C2_GracefulShutdown ==
    (prog = "monitor" /\ interrupted)
    => /\ pc \in {"keyboard_interrupt", "exited"}
       /\ pc = "exited" =>
            /\ exit_status = "ok"
            /\ mqtt_client = "client" => {"loop_stop", "disconnect"} \subseteq clientCalls

(* C3: in the monitor, every per-container state message of a cycle comes
   after that cycle's summary message. *)
C3_SummaryFirst ==
    prog = "monitor" =>
        \A i \in DOMAIN trace :
            (trace[i].op = "publish" /\ trace[i].kind = "state")
            => \E j \in 1..(i - 1) :
                  trace[j].op = "publish" /\ trace[j].topic = SummaryTopic

C3_Witness ==
    /\ prog = "monitor"
    /\ Len(trace) >= 4
    /\ trace[2] = Pub(SummaryTopic, "summary", None, None)
    /\ trace[3].op = "publish" /\ trace[3].kind = "state"
    /\ trace[4].op = "publish" /\ trace[4].kind = "state"

NetworkCalls == {"connect", "loop_start", "publish", "loop_stop", "disconnect"}

(* C4: with DEBUG on, the monitor and the discovery run never call connect,
   loop_start, publish, loop_stop or disconnect, nothing reaches the broker,
   and what would have been published shows as log lines: in a finished
   monitor cycle the summary line and one line per container whose state
   was read, in a finished discovery run the summary line and one line per
   container. *)
C4_DebugNoNetwork ==
    (DEBUG /\ prog \in {"monitor", "discovery"})
    => /\ clientCalls \cap NetworkCalls = {}
       /\ \A i \in DOMAIN trace : trace[i].op /= "publish"
       /\ DOMAIN broker = {}
       /\ (CycleOver /\ trace[Len(trace)] = Info("Updated status"))
            => /\ Count(LAMBDA e : e = Dbg(SummaryTopic, "summary", None)) = 1
               /\ \A c \in Names(containers) :
                     StateDbgs(c) = IF HasError(c) THEN 0 ELSE 1
       /\ (prog = "discovery" /\ pc = "exited" /\ exit_status = "ok")
            => /\ Count(LAMBDA e : e = Dbg(None, "summary", None)) = 1
               /\ \A c \in Names(containers) :
                     Count(LAMBDA e : e = Dbg(None, "discovery", c)) = 1

C4_Witness ==
    /\ DEBUG
    /\ prog = "monitor"
    /\ pc = "exited"
    /\ exit_status = "ok"
    /\ cycle >= 2
    /\ Len(containers) >= 2
    /\ StateDbgs(containers[1]) = 1
    /\ StateDbgs(containers[2]) = 1

(* C5: in a discovery run with DEBUG off that ends normally and in which no
   publish call raised, every container of the list has exactly 7 retained
   descriptors published, the fleet has exactly 4, and the run made exactly
   4 + 7 * N publish calls, all retained. *)
C5_DescriptorCount ==
    (/\ prog = "discovery" /\ ~DEBUG
     /\ pc = "exited" /\ exit_status = "ok"
     /\ \A i \in DOMAIN trace : trace[i].exc /= "PublishError")
    => /\ \A c \in Names(containers) : DescriptorPubs(c) = 7
       /\ DescriptorPubs(None) = 4
       /\ Count(LAMBDA e : e.op = "publish") = 4 + 7 * Len(containers)
       /\ \A i \in DOMAIN trace : trace[i].op = "publish" => trace[i].retain

(* the derivation of the uptime string as the specification words it *)
ClaimedUptime(s, n) ==
    IF s.form \in {"None", "empty"} \/ s = ZeroTime THEN Text("Not started")
    ELSE IF s.form /= "iso" \/ s.tz = "" THEN Text("Unknown")
    ELSE LET elapsed == n - (IF s.tz = "+01:00" THEN s.secs - 3600 ELSE s.secs)
         IN  IF elapsed >= 86400
             THEN Formatted("d h m", elapsed \div 86400, (elapsed % 86400) \div 3600,
                            (elapsed % 3600) \div 60)
             ELSE IF elapsed >= 3600
             THEN Formatted("h m", elapsed \div 3600, (elapsed % 3600) \div 60, 0)
             ELSE Formatted("m s", elapsed \div 60, elapsed % 60, 0)

(* C6: calculate_uptime returns "Not started" for an absent, empty or
   zero-time argument, "Unknown" for one that cannot be turned into an
   instant, and otherwise formats elapsed = now - start by the rule
   "d h m" if elapsed >= 1 day, "h m" if elapsed >= 1 hour, else "m s";
   also for a start later than now; and the result is never null. *)
C6_UptimeDerivation ==
    pc = "returned"
    => /\ uptime /= None
       /\ uptime = ClaimedUptime(started_at_str, now)

(* C7: any two descriptors of the same entity kind that a discovery run
   publishes for two different containers have different unique ids and
   different discovery topics. *)
C7_UniqueIds ==
    prog = "discovery" =>
        \A i, j \in DOMAIN trace :
            (/\ trace[i].op = "publish" /\ trace[j].op = "publish"
             /\ trace[i].who /= None /\ trace[j].who /= None
             /\ trace[i].who /= trace[j].who
             /\ trace[i].kind = trace[j].kind)
            => /\ trace[i].uid /= trace[j].uid
               /\ trace[i].topic /= trace[j].topic

(* C8: a monitor cycle that enumerated its containers is never cut short by
   an error: when it is over, every container of the list has had its turn,
   so each one has its state message published or an error of its own
   logged. *)
C8_CycleNeverAborted ==
    (CycleOver /\ ~DEBUG)
    => \A c \in Names(containers) : StatePubs(c) = 1 \/ HasError(c)

(* C9: a container for which the per-container handler logged an error has
   none of its messages published, and every other container that has had
   its turn has all of them: 1 state message in the monitor, 7 descriptors
   in discovery. *)
C9_NoPartialPublish ==
    ~DEBUG =>
        /\ (CycleOver /\ trace[Len(trace)] = Info("Updated status"))
             => \A c \in Names(containers) :
                   StatePubs(c) = IF HasError(c) THEN 0 ELSE 1
        /\ (prog = "discovery" /\ pc \in {"finish", "exited"} /\ exit_status /= "raised")
             => \A c \in Names(containers) :
                   DescriptorPubs(c) = IF HasError(c) THEN 0 ELSE 7

Retained(b, topic) == IF topic \in DOMAIN b THEN b[topic] ELSE None

(* at the end of a cycle: stale where an error was logged, fresh where the
   state was published *)
C10_Inv ==
    (CycleOver /\ ~DEBUG)
    => \A c \in Names(containers) :
          /\ HasError(c) =>
                Retained(broker, StateTopic(c)) = Retained(brokerAtCycleStart, StateTopic(c))
          /\ StatePubs(c) = 1 =>
                Retained(broker, StateTopic(c)) = Payload(None, c, cycle)

(* a retained state value changes only in the step that publishes it *)
C10_Step ==
    prog = "monitor" =>
        \A c \in Names(AllNames) :
            Retained(broker, StateTopic(c))' /= Retained(broker, StateTopic(c))
            => /\ pc = "publish_container_state"
               /\ containers[idx] = c
               /\ Truthy(state)
               /\ Retained(broker, StateTopic(c))' = Payload(None, c, cycle)
               /\ trace' /= trace

(* C10: when a monitor cycle is over, the retained value on the state topic
   of a container for which an error was logged is the one from before the
   cycle, and that of a container that was published is this cycle's; and
   the retained value of a state topic only ever changes in the step that
   publishes that container's state, to the value of the current cycle. *)
C10_StaleRetained == [](C10_Inv) /\ [][C10_Step]_vars

C10_Witness ==
    /\ CycleOver /\ ~DEBUG
    /\ cycle >= 2
    /\ Len(containers) >= 2
    /\ HasError(containers[1])
    /\ Retained(broker, StateTopic(containers[1])) = Payload(None, containers[1], cycle - 1)
    /\ Retained(broker, StateTopic(containers[2])) = Payload(None, containers[2], cycle)

----------------------------------------------------------------------------
(* The monitor as a running process: a step that can be taken is taken in
   the end (a call returns or raises, a sleep is over or interrupted) *)

MonitorInit == Init /\ prog = "monitor"

LiveSpec == MonitorInit /\ [][MonitorNext]_vars /\ WF_vars(MonitorNext)

PollingPcs ==
    {"list", "publish_summary", "get_container_state", "resolve_image",
     "publish_container_state", "sleep"}

(* the log of a cycle that is over ends with the line of its normal end or
   with the error that ended it *)
C11_CycleEndLogged ==
    (prog = "monitor" /\ pc = "sleep")
    => trace[Len(trace)] \in
          {Info("Updated status"), Err("monitor_containers", None, "Exception")}

(* a step inside the polling loop stays inside it unless it is interrupted,
   and the process ends only after an interrupt *)
C11_Step ==
    (prog = "monitor" /\ pc \in PollingPcs)
    => /\ pc' \in PollingPcs \cup {"keyboard_interrupt"}
       /\ pc' = "keyboard_interrupt" => interrupted'
       /\ exit_status' = "running"

(* a cycle that has started reaches the sleep, unless an interrupt is
   delivered *)
C11_CycleEnds ==
    (prog = "monitor" /\ pc \in PollingPcs \ {"sleep"}) ~> (pc = "sleep" \/ interrupted)

(* the sleep is followed by the start of another cycle, unless an interrupt
   is delivered *)
C11_SleepEnds ==
    (prog = "monitor" /\ pc = "sleep" /\ cycle < MaxCycles) ~> (pc = "list" \/ interrupted)

(* C11: in the polling loop no exception of the runtime client or of the
   publish client ends the monitor: every cycle ends logged, normally or
   with its error, the process leaves the loop only by an interrupt, and
   unless an interrupt is delivered every cycle is followed by the sleep
   and another cycle (as far as the model counts cycles). *)
C11_PollingNeverDies ==
    /\ [](C11_CycleEndLogged)
    /\ [][C11_Step]_vars
    /\ C11_CycleEnds
    /\ C11_SleepEnds

C11_Witness ==
    /\ prog = "monitor" /\ ~DEBUG /\ ~interrupted
    /\ cycle = 2
    /\ pc = "publish_summary"
    /\ DOMAIN broker = {}

====
